---- MODULE Spec2Model ----
(***************************************************************************)
(* The Rust Analyzer bridge of the playground client: the call channel to  *)
(* the analyzer worker (createWorker), the crate cache (cachedNames), the  *)
(* recursive crate loader (loadDependency) and the update pipeline         *)
(* (update), driven by initRustAnalyzer and by editor events.              *)
(*                                                                         *)
(* JavaScript runs one task at a time: a flow runs without interruption    *)
(* from the point where an awaited promise settles to its next await. An   *)
(* action of this module is one such run.                                  *)
(***************************************************************************)
EXTENDS Integers, Sequences, FiniteSets, TLC

\* ---------------------------------------------------------------- bounds
\* Changes of the content of the editor model. Each one that the listener
\* of importTypes hears starts an invocation of `update`.
MaxFlows == 2

\* The longest argument list createArgs is called with.
MaxArgs == 3

\* ------------------------------------------------------- the environment
\* The crates the workspace may use, in the order `update` walks them.
CRATES == <<"a", "b">>

CrateSet == {CRATES[n] : n \in DOMAIN CRATES}

\* What the worker answers to state.loadDependency(name, code, manifest):
\* the crates that `name` needs ("x" is not one of CRATES).
NeededCrates(name) ==
  IF name = "a" THEN <<"b", "x">> ELSE IF name = "b" THEN <<"a">> ELSE <<>>

\* The names a call of cachedNames.set may be given: the crates and what
\* the worker returns as needed.
Names ==
  CrateSet \cup
    UNION {{NeededCrates(c)[k] : k \in DOMAIN NeededCrates(c)} : c \in CrateSet}

\* Contents of the editor model: the `<name>::` paths occurring in it.
Texts == {<<>>, <<"a">>, <<"x", "b">>}

\* Diagnostics lists the worker may return from state.update.
Diagnostics == {<<>>, <<"d1">>}

\* new RegExp(`${crate}::`, "gm").test(text)
RegExpTest(crate, text) == \E n \in DOMAIN text : text[n] = crate

\* CRATES.includes(crate)
CratesIncludes_any(crate) == TRUE

CratesIncludes(crate) == \E n \in DOMAIN CRATES : CRATES[n] = crate

\* ------------------------------------------------------------- the state
VARIABLES
  cachedNames,     \* crate -> "none" (no entry) | "empty" | "full"
  id,              \* createWorker: the next correlation id
  pendingResolve,  \* createWorker: set of [id, res]; res is the flow whose
                   \* promise the resolver settles
  posted,          \* messages posted to the worker and not yet answered
  invoked,         \* id -> number of times the resolver stored under id ran
  flows,           \* flow -> its continuation (0 is initRustAnalyzer)
  value,           \* model.getValue()
  markers,         \* the markers of the model
  hasLib,          \* PgExplorer.getFile("src/lib.rs") is defined
  hasModel,        \* monaco.editor.getEditors()[0]?.getModel() is defined
  ingested,        \* crates for which a full ingestion call was posted
  answered,        \* crates whose full ingestion call the worker answered
  argv,            \* createArgs: the arguments it is called with
  outcome          \* createArgs: what the call produced

vars == <<cachedNames, id, pendingResolve, posted, invoked, flows, value,
          markers, hasLib, hasModel, ingested, answered, argv, outcome>>

FlowIds == 0..MaxFlows

ZeroCount == [c \in CrateSet |-> 0]

\* new Map()
NoCache == [c \in Names |-> "none"]

\* A flow before it starts. pc names the line of the await the flow is
\* suspended at; i is the index of `update`'s loop; stack holds the frames
\* of loadDependency, innermost last; waits is the id of the call awaited
\* (0: none); asked is that call; got is what the last await produced.
\* The remaining fields record the run: solo (no other update in progress
\* during it), stable (no edit during it), cache0 (cachedNames when update
\* started), loads and empties (the state.loadDependency calls it posted,
\* with and without content), fetched (fetches of crate files it started).
IdleFlow ==
  [pc |-> "idle", i |-> 0, stack |-> <<>>, waits |-> 0, asked |-> <<>>,
   got |-> <<>>, solo |-> TRUE, stable |-> TRUE, cache0 |-> NoCache,
   loads |-> ZeroCount, empties |-> ZeroCount, fetched |-> ZeroCount]

\* The pcs at which a flow is inside `update` (including loadDependency).
UpdatePcs == {"L337", "L342", "L354", "L355", "L357"}
\* The pcs at which a flow awaits a reply of the worker.
CallPcs == {"L43", "L57", "L319", "L337", "L342", "L357"}
\* The pcs at which a flow awaits PgCommon.fetchText.
FetchPcs == {"L44", "L45", "L46", "L354", "L355"}

InUpdate(fl) == fl.pc \in UpdatePcs

\* A flow that returned, and one that threw: their locals are gone (of a
\* flow that returned, got keeps the last value it awaited).
DoneFlow == [IdleFlow EXCEPT !.pc = "done"]

FailedFlow == [IdleFlow EXCEPT !.pc = "failed"]

\* The part of the state a run of a flow reads and writes.
Mach ==
  [cachedNames |-> cachedNames, id |-> id, pendingResolve |-> pendingResolve,
   posted |-> posted, invoked |-> invoked, flows |-> flows,
   markers |-> markers, ingested |-> ingested, answered |-> answered,
   value |-> value, hasLib |-> hasLib]

Install(st) ==
  /\ cachedNames' = st.cachedNames
  /\ id' = st.id
  /\ pendingResolve' = st.pendingResolve
  /\ posted' = st.posted
  /\ invoked' = st.invoked
  /\ flows' = st.flows
  /\ markers' = st.markers
  /\ ingested' = st.ingested
  /\ answered' = st.answered
  /\ value' = st.value
  /\ hasLib' = st.hasLib

\* ------------------------------------------------------ the call channel
\* callWorker: store the resolver under the current id, post the message,
\* increment the id. The flow f then awaits the promise.
callWorker_sameId(st, f, method, args) ==
  [st EXCEPT
     !.pendingResolve =
        {p \in @ : p.id # st.id} \cup {[id |-> st.id, res |-> f]},
     !.posted = @ \cup {[method |-> method, args |-> args, id |-> st.id]},
     !.invoked = @ @@ (st.id :> 0),
     !.flows[f].waits = st.id,
     !.flows[f].asked = <<method, args>>]

callWorker(st, f, method, args) ==
  [st EXCEPT
     !.pendingResolve =
        {p \in @ : p.id # st.id} \cup {[id |-> st.id, res |-> f]},
     !.posted = @ \cup {[method |-> method, args |-> args, id |-> st.id]},
     !.invoked = @ @@ (st.id :> 0),
     !.id = @ + 1,
     !.flows[f].waits = st.id,
     !.flows[f].asked = <<method, args>>]

\* The replies the worker may give to a message.
WorkerResults(m) ==
  IF m.method = "update" THEN {[diagnostics |-> d] : d \in Diagnostics}
  ELSE IF m.method = "loadDependency" /\ Len(m.args) = 3
       THEN {NeededCrates(m.args[1])}
  ELSE {<<>>}

\* ---------------------------------------------- update and loadDependency
Frame(name) == [name |-> name, needed |-> <<>>, k |-> 0]

SetTop(stack, fr) == [stack EXCEPT ![Len(stack)] = fr]

Pop(stack) == SubSeq(stack, 1, Len(stack) - 1)

Bump(count, name) == [count EXCEPT ![name] = @ + 1]

\* Line 338: cachedNames.set(crate, "empty")
SetEmpty_full(cache, crate) == [cache EXCEPT ![crate] = "full"]

SetEmpty(cache, crate) == [cache EXCEPT ![crate] = "empty"]

\* Line 362: cachedNames.set(name, "full")
SetFull_not(cache, name) == cache

SetFull(cache, name) == [cache EXCEPT ![name] = "full"]

\* Line 352: cachedNames.get(name) === "full"
IsFull_never(cache, name) == FALSE

IsFull(cache, name) == cache[name] = "full"

RECURSIVE UpdateLoop(_, _, _)
RECURSIVE loadDependency(_, _, _)
RECURSIVE NeededLoop(_, _)

\* Lines 342: the loop is over, request the diagnostics.
RequestDiagnostics(st, f) ==
  callWorker([st EXCEPT !.flows[f].pc = "L342", !.flows[f].i = 0],
             f, "update", <<"path", st.value>>)

\* (the same, going on without awaiting the call of line 337)
UpdateLoop_parallel(st, f, n) ==
  IF n > Len(CRATES) THEN RequestDiagnostics(st, f)
  ELSE
    LET crate == CRATES[n]
        status == st.cachedNames[crate]
        at == [st EXCEPT !.flows[f].i = n]
    IN  IF status = "full" THEN UpdateLoop(st, f, n + 1)
        ELSE IF RegExpTest(crate, st.value) THEN loadDependency(at, f, crate)
        ELSE IF status # "empty"
             THEN UpdateLoop(
                    callWorker(
                      [at EXCEPT !.flows[f].pc = "L337",
                                 !.flows[f].empties = Bump(@, crate)],
                      f, "loadDependency", <<crate>>),
                    f, n + 1)
        ELSE UpdateLoop(st, f, n + 1)

\* (the same, without the test of line 336)
UpdateLoop_always(st, f, n) ==
  IF n > Len(CRATES) THEN RequestDiagnostics(st, f)
  ELSE
    LET crate == CRATES[n]
        status == st.cachedNames[crate]
        at == [st EXCEPT !.flows[f].i = n]
    IN  IF status = "full" THEN UpdateLoop(st, f, n + 1)
        ELSE IF RegExpTest(crate, st.value) THEN loadDependency(at, f, crate)
        ELSE callWorker(
               [at EXCEPT !.flows[f].pc = "L337",
                          !.flows[f].empties = Bump(@, crate)],
               f, "loadDependency", <<crate>>)

\* Lines 330-340 from the iteration for CRATES[n] on, up to the next await.
UpdateLoop(st, f, n) ==
  IF n > Len(CRATES) THEN RequestDiagnostics(st, f)
  ELSE
    LET crate == CRATES[n]
        status == st.cachedNames[crate]
        at == [st EXCEPT !.flows[f].i = n]
    IN  IF status = "full" THEN UpdateLoop(st, f, n + 1)
        ELSE IF RegExpTest(crate, st.value) THEN loadDependency(at, f, crate)
        ELSE IF status # "empty"
             THEN callWorker(
                    [at EXCEPT !.flows[f].pc = "L337",
                               !.flows[f].empties = Bump(@, crate)],
                    f, "loadDependency", <<crate>>)
        ELSE UpdateLoop(st, f, n + 1)

\* Where a returning loadDependency goes back to: the loop of the caller's
\* frame (line 364), or the loop of `update` (line 330).
Return(st, f) ==
  IF st.flows[f].stack = <<>> THEN UpdateLoop(st, f, st.flows[f].i + 1)
  ELSE NeededLoop(st, f)

\* Lines 351-354: enter loadDependency(name), up to the first await.
loadDependency(st, f, name) ==
  IF IsFull(st.cachedNames, name) THEN Return(st, f)
  ELSE [st EXCEPT !.flows[f].pc = "L354",
                  !.flows[f].stack = Append(@, Frame(name)),
                  !.flows[f].fetched = Bump(@, name)]

\* Lines 364-366 of the innermost frame, from its next needed crate on.
NeededLoop_skip(st, f) ==
  Return([st EXCEPT !.flows[f].stack = Pop(st.flows[f].stack)], f)

NeededLoop(st, f) ==
  LET stack == st.flows[f].stack
      fr == stack[Len(stack)]
      k == fr.k + 1
  IN  IF k > Len(fr.needed)
      THEN Return([st EXCEPT !.flows[f].stack = Pop(stack)], f)
      ELSE LET at == [st EXCEPT
                        !.flows[f].stack = SetTop(stack, [fr EXCEPT !.k = k])]
           IN  IF CratesIncludes(fr.needed[k])
               THEN loadDependency(at, f, fr.needed[k])
               ELSE NeededLoop(at, f)

\* (the same, with a new invocation cancelling the ones in progress)
update_cancel(st, f) ==
  UpdateLoop(
    [st EXCEPT
       !.flows = [g \in FlowIds |->
          IF g = f
          THEN [@[g] EXCEPT !.cache0 = st.cachedNames]
          ELSE IF InUpdate(@[g]) THEN DoneFlow ELSE @[g]]],
    f, 1)

\* Line 329: `update` is called; record the circumstances of the run.
update(st, f) ==
  LET others == {g \in FlowIds \ {f} : InUpdate(st.flows[g])}
      begun == [st EXCEPT
                  !.flows = [g \in FlowIds |->
                     IF g = f
                     THEN [@[g] EXCEPT
                             !.solo = (others = {}),
                             !.stable = TRUE,
                             !.cache0 = st.cachedNames]
                     ELSE IF g \in others THEN [@[g] EXCEPT !.solo = FALSE]
                     ELSE @[g]]]
  IN  UpdateLoop(begun, f, 1)

\* ------------------------------------------------------ initRustAnalyzer
\* Lines 71-97: the rest of initRustAnalyzer registers the listeners.
InitTail(st, f) ==
  [st EXCEPT !.flows[f] = [DoneFlow EXCEPT !.got = st.flows[f].got]]

\* Lines 65-66.
UpdateModel(st, f) == IF hasModel THEN update(st, f) ELSE InitTail(st, f)

\* (the same, without the early return of line 54)
LoadWorkspace_always(st, f) ==
  callWorker([st EXCEPT !.flows[f].pc = "L57"],
             f, "setLocalCrateName", <<"solpg">>)

\* Lines 51-57: the callback of executeInitial.
LoadWorkspace(st, f) ==
  IF ~st.hasLib THEN InitTail(st, f)
  ELSE callWorker([st EXCEPT !.flows[f].pc = "L57"],
                  f, "setLocalCrateName", <<"solpg">>)

\* Lines 315-320.
loadLocalFiles(st, f) ==
  callWorker([st EXCEPT !.flows[f].pc = "L319"],
             f, "loadLocalFiles", <<"files">>)

\* `update` returns to its caller.
UpdateDone(st, f) ==
  IF f = 0 THEN InitTail(st, f)
  ELSE [st EXCEPT !.flows[f] = [DoneFlow EXCEPT !.got = st.flows[f].got]]

\* Line 343: monaco.editor.setModelMarkers(model, LANGUAGE_ID, diagnostics)
setModelMarkers_merge(old, diagnostics) == old \o diagnostics

setModelMarkers(old, diagnostics) == diagnostics

\* ------------------------------------------------------------ resumption
\* The flow f continues after the call it awaits resolved with result.
AfterCall(st, f, result) ==
  LET fl == st.flows[f]
      s0 == [st EXCEPT !.flows[f].waits = 0, !.flows[f].asked = <<>>,
                       !.flows[f].got = result]
  IN  CASE fl.pc = "L43" -> LoadWorkspace(s0, f)
        [] fl.pc = "L57" -> loadLocalFiles(s0, f)
        [] fl.pc = "L319" -> UpdateModel(s0, f)
        [] fl.pc = "L337" ->
             UpdateLoop([s0 EXCEPT !.cachedNames = SetEmpty(@, CRATES[fl.i])],
                        f, fl.i + 1)
        [] fl.pc = "L357" ->
             LET fr == fl.stack[Len(fl.stack)]
             IN  NeededLoop(
                   [s0 EXCEPT
                      !.cachedNames = SetFull(@, fr.name),
                      !.answered = @ \cup {fr.name},
                      !.flows[f].stack =
                         SetTop(fl.stack, [fr EXCEPT !.needed = result])],
                   f)
        [] fl.pc = "L342" ->
             UpdateDone(
               [s0 EXCEPT !.markers = setModelMarkers(@, result.diagnostics)],
               f)
        [] OTHER -> s0

\* The resolver stored for flow f under id n is called with result: it
\* settles the promise of call n, which resumes f if f still awaits it.
Resolve(st, f, n, result) ==
  LET s0 == [st EXCEPT !.invoked[n] = @ + 1]
  IN  IF st.flows[f].waits = n /\ st.flows[f].pc \in CallPcs
      THEN AfterCall(s0, f, result)
      ELSE s0

\* worker.onmessage for a message whose id is a number (lines 131-135):
\* the resolver found under the id is called and its entry deleted; the
\* flow whose promise it settled continues after that.
onmessage_keep(st, ev) ==
  LET pending == {p \in st.pendingResolve : p.id = ev.id}
  IN  IF pending = {} THEN st
      ELSE LET p == CHOOSE q \in pending : TRUE
           IN  Resolve(st, p.res, ev.id, ev.result)

onmessage(st, ev) ==
  LET pending == {p \in st.pendingResolve : p.id = ev.id}
  IN  IF pending = {} THEN st
      ELSE LET p == CHOOSE q \in pending : TRUE
           IN  Resolve([st EXCEPT !.pendingResolve = {q \in @ : q.id # ev.id}],
                       p.res, ev.id, ev.result)

\* The flow f continues after the fetch it awaits returned the text.
AfterFetch(st, f) ==
  LET fl == st.flows[f]
  IN  CASE fl.pc = "L44" -> [st EXCEPT !.flows[f].pc = "L45"]
        [] fl.pc = "L45" -> [st EXCEPT !.flows[f].pc = "L46"]
        [] fl.pc = "L46" ->
             callWorker([st EXCEPT !.flows[f].pc = "L43"], f,
                        "loadDefaultCrates", <<"std", "core", "alloc">>)
        [] fl.pc = "L354" ->
             [st EXCEPT !.flows[f].pc = "L355",
                        !.flows[f].fetched =
                           Bump(@, fl.stack[Len(fl.stack)].name)]
        [] fl.pc = "L355" ->
             LET name == fl.stack[Len(fl.stack)].name
             IN  callWorker(
                   [st EXCEPT !.flows[f].pc = "L357",
                              !.flows[f].loads = Bump(@, name),
                              !.ingested = @ \cup {name}],
                   f, "loadDependency",
                   <<name, <<name, "rs">>, <<name, "toml">>>>)
        [] OTHER -> st

\* ------------------------------------------- createArgs (commands/create.ts)
\* An Arg: its name and its `optional` property, which may be missing.
Arg == [name : {"p", "q"}, optional : {"true", "false", "undefined"}]

\* The argument lists of up to MaxArgs arguments.
ArgLists == UNION {[1..n -> Arg] : n \in 0..MaxArgs}

\* The truthiness of a value of `optional` or of the local isOptional.
Truthy_defined(v) == v # "undefined"

Truthy(v) == v = "true"

ErrorMessage == "Optional arguments must come after required arguments"

NotCalled == [state |-> "pending", message |-> "", value |-> <<>>]

\* Lines 39-45 of create.ts: the loop from the n-th argument on, with the
\* current value of the local isOptional; then line 46.
RECURSIVE createArgsLoop(_, _, _)
createArgsLoop(as, n, isOptional) ==
  IF n > Len(as)
  THEN [state |-> "returned", message |-> "", value |-> as]
  ELSE IF Truthy(isOptional) /\ ~Truthy(as[n].optional)
  THEN [state |-> "threw", message |-> ErrorMessage, value |-> <<>>]
  ELSE createArgsLoop(as, n + 1,
                      IF Truthy(as[n].optional) THEN "true" ELSE isOptional)

\* Lines 37-47 of create.ts; `let isOptional;` leaves it undefined.
createArgs(as) == createArgsLoop(as, 1, "undefined")

\* ----------------------------------------------------------------- Init
InitBridge ==
  /\ cachedNames = NoCache
  /\ id = 1
  /\ pendingResolve = {}
  /\ posted = {}
  /\ invoked = <<>>
  /\ flows = [f \in FlowIds |->
                IF f = 0 THEN [IdleFlow EXCEPT !.pc = "L40"] ELSE IdleFlow]
  /\ value \in Texts
  /\ markers = <<>>
  /\ hasLib \in BOOLEAN
  /\ hasModel \in BOOLEAN
  /\ ingested = {}
  /\ answered = {}

Init ==
  /\ InitBridge
  /\ argv = <<>>
  /\ outcome = NotCalled

\* -------------------------------------------------------------- actions
\* The worker's readiness message arrives (lines 126-129): createWorker's
\* promise resolves and initRustAnalyzer goes on to fetch the default
\* crates.
WorkerReady ==
  /\ flows[0].pc = "L40"
  /\ flows' = [flows EXCEPT ![0].pc = "L44"]
  /\ UNCHANGED <<cachedNames, id, pendingResolve, posted, invoked, value,
                 markers, hasLib, hasModel, ingested, answered, argv,
                 outcome>>

\* The worker's reply to the posted message m arrives.
Reply(m) ==
  /\ m \in posted
  /\ \E result \in WorkerResults(m) :
       Install(onmessage([Mach EXCEPT !.posted = @ \ {m}],
                         [id |-> m.id, result |-> result]))
  /\ UNCHANGED <<hasModel, argv, outcome>>

\* A message arrives whose id is the id of no outstanding call: the id not
\* issued yet, or a second reply to the last call when it is answered.
StrayIds_pending == {p.id : p \in pendingResolve}

StrayIds == {n \in {id - 1, id} : n > 0 /\ \A m \in posted : m.id # n}

StrayReply(n) ==
  /\ n \in StrayIds
  /\ Install(onmessage(Mach, [id |-> n, result |-> <<>>]))
  /\ UNCHANGED <<hasModel, argv, outcome>>

\* PgCommon.fetchText returns the text to flow f.
FetchOk(f) ==
  /\ flows[f].pc \in FetchPcs
  /\ Install(AfterFetch(Mach, f))
  /\ UNCHANGED <<hasModel, argv, outcome>>

\* (the same, with the crate marked "full" ahead of its fetches)
FetchFail_marked(f) ==
  /\ flows[f].pc \in FetchPcs
  /\ flows' = [flows EXCEPT ![f] = FailedFlow]
  /\ cachedNames' =
       IF flows[f].stack = <<>> THEN cachedNames
       ELSE SetFull(cachedNames, flows[f].stack[Len(flows[f].stack)].name)
  /\ UNCHANGED <<id, pendingResolve, posted, invoked, value, markers,
                 hasLib, hasModel, ingested, answered, argv, outcome>>

\* PgCommon.fetchText throws in flow f: nothing catches it, the flow ends.
FetchFail(f) ==
  /\ flows[f].pc \in FetchPcs
  /\ flows' = [flows EXCEPT ![f] = FailedFlow]
  /\ UNCHANGED <<cachedNames, id, pendingResolve, posted, invoked, value,
                 markers, hasLib, hasModel, ingested, answered, argv,
                 outcome>>

\* (the same, with `update` registered as the listener from the start)
ChangeContent_early(f, text) ==
  /\ f # 0
  /\ flows[f].pc = "idle"
  /\ \A g \in 1..(f - 1) : flows[g].pc # "idle"
  /\ text # value
  /\ Install(update([Mach EXCEPT !.value = text], f))
  /\ UNCHANGED <<hasModel, argv, outcome>>

\* The user changes the content of the model to text; it is the f-th
\* change. Every `update` in progress reads the new content from now on.
\* Once initRustAnalyzer has registered `update` through importTypes
\* (line 81) the change calls update(model); before that nothing listens.
ChangeContent(f, text) ==
  /\ f # 0
  /\ flows[f].pc = "idle"
  /\ \A g \in 1..(f - 1) : flows[g].pc # "idle"
  /\ text # value
  /\ LET unstable == [Mach EXCEPT
                        !.value = text,
                        !.flows = [g \in FlowIds |->
                           IF InUpdate(flows[g])
                           THEN [flows[g] EXCEPT !.stable = FALSE]
                           ELSE flows[g]]]
     IN  IF flows[0].pc = "done"
         THEN Install(update(unstable, f))
         ELSE Install([unstable EXCEPT !.flows[f] = DoneFlow])
  /\ UNCHANGED <<hasModel, argv, outcome>>

Next ==
  \/ WorkerReady
  \/ \E m \in posted : Reply(m)
  \/ \E n \in StrayIds : StrayReply(n)
  \/ \E f \in FlowIds : FetchOk(f)
  \/ \E f \in FlowIds : FetchFail(f)
  \/ \E f \in FlowIds, text \in Texts : ChangeContent(f, text)

Spec == Init /\ [][Next]_vars

\* No `update` is in progress.
Quiet == \A f \in FlowIds : ~InUpdate(flows[f])

\* The session in which the content changes only while no `update` is in
\* progress: the invocations of `update` follow one another.
NextSeq ==
  \/ WorkerReady
  \/ \E m \in posted : Reply(m)
  \/ \E n \in StrayIds : StrayReply(n)
  \/ \E f \in FlowIds : FetchOk(f)
  \/ \E f \in FlowIds : FetchFail(f)
  \/ \E f \in FlowIds, text \in Texts : Quiet /\ ChangeContent(f, text)

SpecSeq == Init /\ [][NextSeq]_vars

\* PgExplorer.onDidSwitchWorkspace fires and the callback of lines 51-67
\* runs as flow f; lib tells whether the workspace switched to has
\* src/lib.rs. The callback is subscribed by executeInitial once its
\* first execution is over, after which initRustAnalyzer runs to its end
\* without awaiting.
SwitchWorkspace(f, lib) ==
  /\ f # 0
  /\ flows[f].pc = "idle"
  /\ \A g \in 1..(f - 1) : flows[g].pc # "idle"
  /\ flows[0].pc = "done"
  /\ Install(LoadWorkspace([Mach EXCEPT !.hasLib = lib], f))
  /\ UNCHANGED <<hasModel, argv, outcome>>

NextSwitch ==
  \/ WorkerReady
  \/ \E m \in posted : Reply(m)
  \/ \E n \in StrayIds : StrayReply(n)
  \/ \E f \in FlowIds : FetchOk(f)
  \/ \E f \in FlowIds : FetchFail(f)
  \/ \E f \in FlowIds, lib \in BOOLEAN : SwitchWorkspace(f, lib)

\* The session in which the user switches workspaces.
SpecSwitch == Init /\ [][NextSwitch]_vars

\* A command module calls createArgs(...argv).
CreateArgs ==
  /\ outcome = NotCalled
  /\ outcome' = createArgs(argv)
  /\ UNCHANGED <<cachedNames, id, pendingResolve, posted, invoked, flows,
                 value, markers, hasLib, hasModel, ingested, answered, argv>>

InitArgs ==
  /\ InitBridge
  /\ argv \in ArgLists
  /\ outcome = NotCalled

NextArgs == CreateArgs

\* The calls of createArgs, on every argument list up to the bound.
SpecArgs == InitArgs /\ [][NextArgs]_vars

\* ------------------------------------------------------------ properties
\* The full ingestion calls among a set of messages.
FullLoads(msgs) ==
  {m \in msgs : m.method = "loadDependency" /\ Len(m.args) = 3}

\* What flow new shows of the value its await produced: its got, and for
\* an `update` that returned also the markers mk it published.
Received(old, new, mk, m) ==
  /\ new.got \in WorkerResults(m)
  /\ old.pc = "L342" => new.got.diagnostics = mk

\* C1 (step): in every step, (a) a resolver leaves the pending table only
\* because the reply to the call with its id arrived, that call is the one
\* its flow issued, the resolver ran once and the flow received a result of
\* that call; (b) a resolver runs only for the id of a reply that arrived;
\* (c) every reply that arrives runs the resolver of its call.
C1_Step ==
  /\ \A p \in pendingResolve \ pendingResolve' :
        \E m \in posted \ posted' :
          /\ m.id = p.id
          /\ <<m.method, m.args>> = flows[p.res].asked
          /\ invoked'[p.id] = 1
          /\ Received(flows[p.res], flows'[p.res], markers', m)
  /\ \A n \in DOMAIN invoked :
        invoked'[n] # invoked[n] => \E m \in posted \ posted' : m.id = n
  /\ \A m \in posted \ posted' :
        \E p \in pendingResolve \ pendingResolve' : p.id = m.id

\* C1: whatever calls are outstanding together and in whatever order the
\* replies arrive, each call's resolver is invoked exactly once, with the
\* result of the reply that carries the call's id, and a message whose id
\* matches no pending call invokes no resolver.
C1_ExactlyOnce ==
  /\ [](\A n \in DOMAIN invoked : invoked[n] <= 1)
  /\ [][C1_Step]_vars

\* C1 witness: two calls were outstanding together and the one issued
\* later has been resolved while the earlier one is still pending.
C1_Witness ==
  \E p \in pendingResolve :
    \E n \in DOMAIN invoked : n > p.id /\ invoked[n] = 1

\* C2: once a crate reads "full" in cachedNames, no step makes it read
\* anything else.
C2_FullIsMonotonic ==
  [][\A c \in CrateSet :
       cachedNames[c] = "full" => cachedNames'[c] = "full"]_vars

\* C3: across all flows of the session the full ingestion call of a crate
\* is posted at most once.
C3_IngestedAtMostOnce ==
  [][\A m \in FullLoads(posted' \ posted) : m.args[1] \notin ingested]_vars

\* C10 (state): the pending table holds one resolver per id, and only ids
\* of calls issued and not yet replied.
C10_Pending ==
  /\ \A p, q \in pendingResolve : p.id = q.id => p = q
  /\ \A p \in pendingResolve :
        /\ p.id \in DOMAIN invoked
        /\ invoked[p.id] = 0
        /\ \E m \in posted : m.id = p.id

\* C10 (step): the first call gets id 1 and every call an id that is a
\* number greater than every id issued before it.
C10_Step ==
  \A m \in posted' \ posted :
    /\ m.id \in Nat
    /\ DOMAIN invoked = {} => m.id = 1
    /\ \A n \in DOMAIN invoked : m.id > n

\* C10: ids start at 1, strictly increase, are never issued twice and are
\* numbers (the readiness message carries a string), and the pending table
\* holds at most one resolver per id, only for calls issued and not yet
\* replied.
C10_CorrelationIds == [](C10_Pending) /\ [][C10_Step]_vars

\* C10 witness: several calls have been issued, some answered and two of
\* them pending together.
C10_Witness ==
  /\ Cardinality(pendingResolve) >= 2
  /\ \E n \in DOMAIN invoked : invoked[n] = 1
\* The step in which the `update` of flow f returns.
Finishing(f) == flows[f].pc = "L342" /\ flows'[f].pc = "done"

\* The crates whose `<name>::` occurs in text.
Used(text) == {c \in CrateSet : RegExpTest(c, text)}

Full0(fl) == {c \in CrateSet : fl.cache0[c] = "full"}

Needs(n) == {NeededCrates(n)[k] : k \in DOMAIN NeededCrates(n)}

\* The crates reached from the set names through NeededCrates without
\* passing a crate of full.
RECURSIVE Closure(_, _)
Closure(names, full) ==
  LET more == names \cup
                {c \in CrateSet \ full : \E n \in names : c \in Needs(n)}
  IN  IF more = names THEN names ELSE Closure(more, full)

\* The crates a run of `update` on text has to ingest.
ToIngest(text, fl) == Closure(Used(text) \ Full0(fl), Full0(fl))

\* C4 (step): once the full ingestion of crate n was answered (which it
\* is when a loadDependency(n) has completed), n reads "full", and no step
\* starts a fetch for n, posts a call for n or changes n's cache entry; and
\* no full ingestion call is posted twice.
C4_Step ==
  /\ \A n \in answered :
        /\ cachedNames[n] = "full"
        /\ cachedNames'[n] = "full"
        /\ \A f \in FlowIds :
              /\ flows'[f].fetched[n] <= flows[f].fetched[n]
              /\ flows'[f].loads[n] <= flows[f].loads[n]
        /\ \A m \in posted' \ posted :
              m.method = "loadDependency" => m.args[1] # n
  /\ \A m \in FullLoads(posted' \ posted) : m.args[1] \notin ingested

\* C4: when loadDependency is invoked for a crate after an earlier
\* invocation for it has completed, it issues no fetch and no session call
\* and leaves the cache as it is, so the ingestion happens at most once
\* (invocations of `update` following one another).
C4_Idempotent == [][C4_Step]_vars

\* C4 witness: a flow that started with crate c full has ingested a crate
\* n that needs c and is through with n's needed crates: loadDependency(c)
\* was invoked again and returned at once.
C4_Witness ==
  \E f \in FlowIds, n \in CrateSet, c \in CrateSet :
    /\ c \in Needs(n)
    /\ flows[f].cache0[c] = "full"
    /\ flows[f].loads[n] = 1
    /\ flows[f].loads[c] = 0
    /\ flows[f].fetched[c] = 0
    /\ flows[f].pc = "L342"

\* C5 (state): a flow that runs alone never nests loadDependency deeper
\* than there are crates and ingests no crate twice, and when its loop is
\* over after ingesting something from an all-unloaded start, the crates
\* of the cycle are ingested once each and read "full".
C5_Safe ==
  \A f \in FlowIds :
    flows[f].solo /\ InUpdate(flows[f]) =>
      /\ Len(flows[f].stack) <= Len(CRATES)
      /\ \A c \in CrateSet : flows[f].loads[c] <= 1
      /\ ( /\ flows[f].pc = "L342"
           /\ Full0(flows[f]) = {}
           /\ \E c \in CrateSet : flows[f].loads[c] = 1 )
         => \A c \in {"a", "b"} :
              flows[f].loads[c] = 1 /\ cachedNames[c] = "full"

\* The awaits left in the innermost loadDependency of a flow, plus three
\* for every crate that is not full yet.
Measure(cache, fl) ==
  3 * Cardinality({c \in CrateSet : cache[c] # "full"})
    + (CASE fl.pc = "L354" -> 3 [] fl.pc = "L355" -> 2 [] OTHER -> 1)

\* C5 (progress): a flow inside loadDependency awaits a fetch, or a call
\* that is posted to the worker under the flow's id.
C5_Answerable ==
  \A f \in FlowIds :
    flows[f].stack # <<>> =>
      \/ flows[f].pc \in {"L354", "L355"}
      \/ /\ flows[f].pc = "L357"
         /\ \E m \in FullLoads(posted) : m.id = flows[f].waits
         /\ \E p \in pendingResolve : p.id = flows[f].waits /\ p.res = f

\* C5 (step): every step of a flow that runs alone inside loadDependency
\* either leaves loadDependency or lowers the measure.
C5_Step ==
  \A f \in FlowIds :
    ( /\ flows[f].stack # <<>>
      /\ flows[f].solo
      /\ flows'[f].solo
      /\ <<flows'[f].pc, flows'[f].stack>> # <<flows[f].pc, flows[f].stack>> )
    => \/ flows'[f].stack = <<>>
       \/ Measure(cachedNames', flows'[f]) < Measure(cachedNames, flows[f])

\* C5: with a needs b and b needs a, loadDependency run by a single flow
\* whose fetches and calls are answered terminates (each answer lowers a
\* measure that is bounded below, and an answer is always awaited),
\* ingests a and b once each and leaves both "full".
C5_CycleTerminates ==
  /\ [](C5_Safe /\ C5_Answerable)
  /\ [][C5_Step]_vars

\* C5 witness: a flow running alone from an all-unloaded start is through
\* the cycle: both crates ingested once, both "full", the stack empty.
C5_Witness ==
  \E f \in FlowIds :
    /\ flows[f].solo
    /\ flows[f].pc = "L342"
    /\ Full0(flows[f]) = {}
    /\ flows[f].loads = [c \in CrateSet |-> 1]
    /\ \A c \in CrateSet : cachedNames[c] = "full"

\* C6 (step): when an `update` that ran alone on an unchanged text
\* returns, it has posted exactly one full ingestion call for every crate
\* the text uses that was not full and for every crate these need in
\* turn that was not full, none for any other crate, and these crates read
\* "full"; no call is ever posted for a name outside CRATES.
C6_Step ==
  /\ \A f \in FlowIds :
        Finishing(f) /\ flows[f].solo /\ flows[f].stable =>
          \A c \in CrateSet :
            IF c \in ToIngest(value, flows[f])
            THEN flows[f].loads[c] = 1 /\ cachedNames'[c] = "full"
            ELSE flows[f].loads[c] = 0
  /\ \A m \in posted' \ posted :
        m.method = "loadDependency" => m.args[1] \in CrateSet

\* C6: `update` on a text that uses a crate foo that is not full ends with
\* foo full after exactly one ingestion call for foo and one for each of
\* its transitive requirements in CRATES that was not full, and none for
\* names outside CRATES.
C6_UpdateLoadsUsed == [][C6_Step]_vars

\* C6 witness: an `update` running alone on an unchanged text that uses a
\* crate has ingested it and what it needs and is about to return.
C6_Witness ==
  \E f \in FlowIds :
    /\ flows[f].pc = "L342"
    /\ flows[f].solo
    /\ flows[f].stable
    /\ Used(value) # {}
    /\ ToIngest(value, flows[f]) = CrateSet
    /\ flows[f].loads = [c \in CrateSet |-> 1]

\* C7 (step): when an `update` that ran alone on an unchanged text using
\* no crate returns: if the cache was empty at its start, every crate
\* reads "empty" after one register-empty call each and no ingestion; a
\* crate that was full at its start is still full and no call was posted
\* for it.
C7_Step ==
  \A f \in FlowIds :
    Finishing(f) /\ flows[f].solo /\ flows[f].stable /\ Used(value) = {} =>
      /\ flows[f].cache0 = NoCache =>
            \A c \in CrateSet :
              /\ cachedNames'[c] = "empty"
              /\ flows[f].empties[c] = 1
              /\ flows[f].loads[c] = 0
      /\ \A c \in Full0(flows[f]) :
            /\ cachedNames'[c] = "full"
            /\ flows[f].empties[c] = 0
            /\ flows[f].loads[c] = 0

\* C7: `update` on a text without any `<name>::` of a crate leaves, on the
\* first run, every crate Empty and none Full with one register-empty
\* call per crate, and leaves crates that were Full untouched.
C7_UpdateMarksUnused == [][C7_Step]_vars

\* C7 witness: the first `update`, alone on an unchanged text that uses no
\* crate, has registered every crate empty and is about to return.
C7_Witness ==
  \E f \in FlowIds :
    /\ flows[f].pc = "L342"
    /\ flows[f].solo
    /\ flows[f].stable
    /\ Used(value) = {}
    /\ flows[f].cache0 = NoCache
    /\ flows[f].empties = [c \in CrateSet |-> 1]
    /\ \A c \in CrateSet : cachedNames[c] = "empty"

\* C8: when `update` posts its diagnostics request, every crate whose
\* `<name>::` occurs in the text it sends has had its full ingestion call
\* answered by the worker.
C8_DiagnosticsAfterIngestion ==
  [][\A m \in posted' \ posted :
       m.method = "update" => Used(m.args[2]) \subseteq answered']_vars

\* C9: when an `update` returns, the markers of the model are exactly the
\* diagnostics that the reply to its own diagnostics request carried,
\* whatever the markers were before.
C9_MarkersReplaced ==
  [][\A f \in FlowIds :
       Finishing(f) =>
         /\ markers' = flows'[f].got.diagnostics
         /\ \E m \in posted \ posted' :
              /\ m.id = flows[f].waits
              /\ m.method = "update"
              /\ flows'[f].got \in WorkerResults(m)]_vars

\* C9 witness: an `update` that returned one diagnostic was followed by
\* one that returned none, and the model has no marker.
C9_Witness ==
  \E f, g \in FlowIds :
    /\ flows[f].pc = "done"
    /\ flows[g].pc = "done"
    /\ flows[f].got = [diagnostics |-> <<"d1">>]
    /\ flows[g].got = [diagnostics |-> <<>>]
    /\ markers = <<>>

\* C11 (step): a step that posts a call message starts from a state in
\* which the readiness message has been received, and the first call
\* posted is initRustAnalyzer's loadDefaultCrates.
C11_Step ==
  \A m \in posted' \ posted :
    /\ flows[0].pc # "L40"
    /\ DOMAIN invoked = {} =>
          m.method = "loadDefaultCrates" /\ flows'[0].waits = m.id

\* C11: no call message is posted to the worker before its readiness
\* message has been received: while createWorker's promise is unresolved
\* no message has been posted, no resolver stored and no id used, and
\* the first call is the loadDefaultCrates of initRustAnalyzer.
C11_NoCallBeforeReady ==
  /\ [](flows[0].pc = "L40" =>
          posted = {} /\ pendingResolve = {} /\ DOMAIN invoked = {} /\ id = 1)
  /\ [][C11_Step]_vars

\* C11 witness: the readiness message has been received and the first
\* call, loadDefaultCrates, is posted under id 1.
C11_Witness ==
  /\ flows[0].pc = "L43"
  /\ \E m \in posted : m.method = "loadDefaultCrates" /\ m.id = 1

\* C12 (step): in a step in which the reply to a pending call does not
\* arrive, the call's resolver is not invoked and stays in the pending
\* table, the flow awaiting the call stays where it is and posts nothing,
\* and if it is inside `update` the markers change only because another
\* `update` returns.
C12_Step ==
  \A p \in pendingResolve :
    (\E m \in posted \cap posted' : m.id = p.id) =>
      /\ p \in pendingResolve'
      /\ invoked'[p.id] = 0
      /\ flows[p.res].waits = p.id =>
            /\ flows'[p.res].pc = flows[p.res].pc
            /\ flows'[p.res].waits = p.id
            /\ flows'[p.res].i = flows[p.res].i
            /\ flows'[p.res].stack = flows[p.res].stack
            /\ flows'[p.res].got = flows[p.res].got
            /\ \A q \in pendingResolve' \ pendingResolve : q.res # p.res
            /\ markers' # markers =>
                  \E g \in FlowIds \ {p.res} : Finishing(g)

\* C12: a call whose reply never arrives never resolves: nothing but the
\* reply carrying its id invokes its resolver or removes its entry, and
\* the flow awaiting it stays suspended, posting no later request and
\* publishing no markers, while other calls and flows are served.
C12_NoTimeout ==
  /\ [](\A f \in FlowIds :
          flows[f].pc \in CallPcs =>
            \E p \in pendingResolve : p.id = flows[f].waits /\ p.res = f)
  /\ [][C12_Step]_vars

\* C12 witness: an `update` still awaits the reply to a call while an
\* `update` that started later has had its calls answered and returned.
C12_Witness ==
  \E f, g \in FlowIds :
    /\ f < g
    /\ InUpdate(flows[f])
    /\ \E m \in posted : m.id = flows[f].waits
    /\ flows[g].pc = "done"
    /\ flows[g].got \in {[diagnostics |-> d] : d \in Diagnostics}
    /\ markers = flows[g].got.diagnostics

\* The register-empty calls among a set of messages.
EmptyLoads(msgs) ==
  {m \in msgs : m.method = "loadDependency" /\ Len(m.args) = 1}

\* C13 (step): (a) a register-empty call is posted for a crate only when
\* the crate has no status, and it is posted by a flow of `update` at the
\* crate's iteration; (b) when the reply to a register-empty call arrives
\* for the flow that awaits it, the crate reads "empty"; (c) a crate's
\* entry becomes "empty" in no other step; (d) when an `update` that ran
\* alone on an unchanged text returns, then of the crates it did not
\* have to ingest, each that had no status at its start reads "empty"
\* after one register-empty call, and each that was "empty" or "full"
\* reads as it did; and it posted no register-empty call for any crate
\* that was "empty" or "full" at its start.
C13_Step ==
  /\ \A m \in EmptyLoads(posted' \ posted) :
        /\ cachedNames[m.args[1]] = "none"
        /\ cachedNames'[m.args[1]] = "none"
        /\ \E f \in FlowIds :
              /\ flows'[f].pc = "L337"
              /\ flows'[f].waits = m.id
              /\ CRATES[flows'[f].i] = m.args[1]
              /\ ~RegExpTest(m.args[1], value')
  /\ \A m \in EmptyLoads(posted \ posted') :
        (\E p \in pendingResolve \ pendingResolve' :
            p.id = m.id /\ flows[p.res].waits = m.id)
        => cachedNames'[m.args[1]] = "empty"
  /\ \A c \in CrateSet :
        cachedNames'[c] = "empty" /\ cachedNames[c] # "empty" =>
          \E m \in EmptyLoads(posted \ posted') : m.args[1] = c
  /\ \A f \in FlowIds :
        Finishing(f) /\ flows[f].solo /\ flows[f].stable =>
          \A c \in CrateSet :
            /\ flows[f].cache0[c] # "none" => flows[f].empties[c] = 0
            /\ c \notin ToIngest(value, flows[f]) =>
                  IF flows[f].cache0[c] = "none"
                  THEN flows[f].empties[c] = 1 /\ cachedNames'[c] = "empty"
                  ELSE cachedNames'[c] = flows[f].cache0[c]

\* C13: for a crate the text does not use and whose status is neither
\* "full" nor "empty", `update` posts the register-empty call and, on its
\* reply, sets the status "empty"; for a crate that is "empty" or "full"
\* it posts no call and leaves the entry as it is.
C13_MarkSeen == [][C13_Step]_vars

\* C13 witness: an `update` running alone on an unchanged text has
\* registered one crate that had no status, skipped one that was already
\* "empty", and is about to return.
C13_Witness ==
  \E f \in FlowIds, c, d \in CrateSet :
    /\ flows[f].pc = "L342"
    /\ flows[f].solo
    /\ flows[f].stable
    /\ Used(value) = {}
    /\ flows[f].cache0[c] = "none"
    /\ flows[f].empties[c] = 1
    /\ flows[f].cache0[d] = "empty"
    /\ flows[f].empties[d] = 0
    /\ cachedNames[c] = "empty"
    /\ cachedNames[d] = "empty"

\* An argument is optional when its `optional` property is true.
IsOptional(arg) == arg.optional = "true"

\* Some argument that is not optional comes later in the list than an
\* optional one.
Misordered(list) ==
  \E m, n \in DOMAIN list :
    m < n /\ IsOptional(list[m]) /\ ~IsOptional(list[n])

\* C14: createArgs throws the error "Optional arguments must come after
\* required arguments" exactly when some non-optional argument comes
\* later in the list than an optional one; for every other list, the
\* empty one included, it returns the same arguments in the same order.
C14_CreateArgs ==
  outcome # NotCalled =>
    IF Misordered(argv)
    THEN outcome.state = "threw" /\ outcome.message = ErrorMessage
    ELSE outcome.state = "returned" /\ outcome.value = argv

\* C14 witness: createArgs threw on a list whose first argument is
\* optional and whose last has no `optional` property.
C14_Witness ==
  /\ outcome.state = "threw"
  /\ Len(argv) = MaxArgs
  /\ argv[1].optional = "true"
  /\ argv[Len(argv)].optional = "undefined"

\* The calls of flow f that are outstanding.
Outstanding(f) == {p \in pendingResolve : p.res = f}

\* C15 (state): a flow inside `update` has one request outstanding: a
\* fetch and no call, or one call and no fetch; what it awaits belongs to
\* the iteration of the loop it is in: the register-empty call of that
\* crate, or a loadDependency whose outermost invocation is for it.
C15_OneAtATime ==
  \A f \in FlowIds :
    InUpdate(flows[f]) =>
      /\ IF flows[f].pc \in FetchPcs
         THEN Outstanding(f) = {}
         ELSE /\ Cardinality(Outstanding(f)) = 1
              /\ \E p \in Outstanding(f) : p.id = flows[f].waits
      /\ flows[f].pc = "L337" =>
            /\ flows[f].stack = <<>>
            /\ flows[f].asked = <<"loadDependency", <<CRATES[flows[f].i]>>>>
      /\ flows[f].pc \in {"L354", "L355", "L357"} =>
            /\ flows[f].stack # <<>>
            /\ flows[f].stack[1].name = CRATES[flows[f].i]
      /\ flows[f].pc = "L342" => flows[f].stack = <<>> /\ flows[f].i = 0

\* C15 (step): the loop of a flow moves to another iteration only in a
\* step in which the reply to the call it awaited arrived (a fetch that
\* returns is followed by the next await of the same loadDependency),
\* and it moves forward in CRATES or leaves the loop (a flow whose
\* fetch throws leaves `update` altogether).
C15_Step ==
  \A f \in FlowIds :
    ( /\ InUpdate(flows[f])
      /\ flows'[f].i # flows[f].i
      /\ flows'[f].pc # "failed" )
    => /\ flows[f].pc \in {"L337", "L357"}
       /\ \E p \in Outstanding(f) :
             p.id = flows[f].waits /\ p \notin pendingResolve'
       /\ \/ flows'[f].i > flows[f].i /\ InUpdate(flows'[f])
          \/ flows'[f].pc = "L342"

\* C15: within one invocation of `update` the loading steps follow one
\* another in the order of CRATES: the invocation never has more than one
\* fetch or call outstanding, and the step of a later crate starts only
\* when the step of the earlier one, its recursive load included, is
\* over.
C15_Sequential == [](C15_OneAtATime) /\ [][C15_Step]_vars

\* C15 witness: an `update` is in the iteration of the second crate, with
\* one call outstanding, after it ingested the first crate.
C15_Witness ==
  \E f \in FlowIds :
    /\ InUpdate(flows[f])
    /\ flows[f].i = 2
    /\ flows[f].loads[CRATES[1]] = 1
    /\ Cardinality(Outstanding(f)) = 1

\* C16: in every state in which no `update` (hence no loadDependency) is
\* in progress, every crate of CRATES that the worker returned as needed
\* by a crate reading "full" reads "full" itself.
C16_FullIsClosed ==
  Quiet =>
    \A c \in CrateSet :
      cachedNames[c] = "full" =>
        \A d \in Needs(c) \cap CrateSet : cachedNames[d] = "full"

\* Where flow fl stands in its code.
Position(fl) == <<fl.pc, fl.i, fl.stack, fl.waits>>

\* C17 (step): for every `update` in progress, (a) a change of the
\* content, which starts a newer `update`, leaves it where it stands;
\* (b) it leaves `update` only by returning after the reply to its own
\* diagnostics request, or because a fetch threw; (c) when it returns,
\* the markers become the diagnostics of its reply, whichever other
\* invocation published markers before, and no other flow moves.
C17_Step ==
  \A f \in FlowIds :
    InUpdate(flows[f]) =>
      /\ value' # value => Position(flows'[f]) = Position(flows[f])
      /\ ~InUpdate(flows'[f]) =>
            \/ Finishing(f)
            \/ flows[f].pc \in FetchPcs /\ flows'[f].pc = "failed"
      /\ Finishing(f) =>
            /\ markers' = flows'[f].got.diagnostics
            /\ \A g \in FlowIds \ {f} :
                  Position(flows'[g]) = Position(flows[g])

\* C17: there is no cancellation: of two invocations of `update` in
\* flight at once each runs on to its return, and the one that returns
\* last determines the markers, even when it started first.
C17_NoCancellation == [][C17_Step]_vars

\* C17 witness: of the only two invocations started by changes of the
\* content, which both returned, the markers are the diagnostics of the
\* one that started first and differ from those of the one that started
\* later: the earlier one returned last.
C17_Witness ==
  \E f, g \in FlowIds :
    /\ 0 < f
    /\ f < g
    /\ \A h \in FlowIds \ {0, f, g} : flows[h].pc = "idle"
    /\ flows[f].pc = "done"
    /\ flows[g].pc = "done"
    /\ flows[f].got = [diagnostics |-> <<"d1">>]
    /\ flows[g].got = [diagnostics |-> <<>>]
    /\ markers = <<"d1">>

\* The step in which a fetch of loadDependency throws in flow f.
Failing(f) == flows[f].pc \in {"L354", "L355"} /\ flows'[f].pc = "failed"

\* C18 (step): the step in which a fetch of loadDependency(name) throws
\* posts no call, stores no resolver and leaves the cache as it is, so
\* name is not "full" because of it; and a flow that failed never moves
\* again: it fetches nothing and posts nothing.
C18_Step ==
  \A f \in FlowIds :
    /\ Failing(f) =>
          /\ cachedNames' = cachedNames
          /\ posted' = posted
          /\ pendingResolve' = pendingResolve
          /\ ingested' = ingested
          /\ id' = id
          /\ IsFull(cachedNames, flows[f].stack[Len(flows[f].stack)].name)
                => flows[f].solo = FALSE
    /\ flows[f].pc = "failed" =>
          /\ flows'[f] = flows[f]
          /\ \A p \in pendingResolve' \ pendingResolve : p.res # f

\* C18: when a fetch of the source or the manifest fails inside
\* loadDependency(name), the flow issues no ingestion call for name,
\* leaves name's status as it was, and does not fetch again.
C18_FetchFailure ==
  /\ [](\A f \in FlowIds : flows[f].pc = "failed" => Outstanding(f) = {})
  /\ [][C18_Step]_vars

\* C18 witness: the first loadDependency of the session failed at a
\* fetch: its flow is over, no ingestion call was ever posted and no
\* crate has a status.
C18_Witness ==
  \E f \in FlowIds :
    /\ f > 0
    /\ flows[f].pc = "failed"
    /\ ingested = {}
    /\ cachedNames = NoCache

\* The step in which the workspace-load stage starts in flow f: in
\* initRustAnalyzer when the default crates are loaded, in another flow
\* when the workspace is switched.
Starting(f) ==
  IF f = 0 THEN flows[0].pc = "L43" /\ flows'[0].pc # "L43"
  ELSE flows[f].pc = "idle" /\ flows'[f].pc # "idle"

\* The reply to the call flow f awaits arrives in this step.
Answered(f) ==
  \E p \in Outstanding(f) : p.id = flows[f].waits /\ p \notin pendingResolve'

\* This step posts exactly one call, of the given method, awaited by f.
PostsOnly(f, method) ==
  \E m \in posted' \ posted :
    /\ posted' \ posted = {m}
    /\ m.method = method
    /\ flows'[f].waits = m.id

\* The steps of the workspace-load stage, where updates tells whether the
\* stage ends with `update`.
C19_Stage(updates) ==
  /\ \A f \in FlowIds :
        /\ Starting(f) =>
              IF hasLib'
              THEN flows'[f].pc = "L57" /\ PostsOnly(f, "setLocalCrateName")
              ELSE /\ flows'[f].pc = "done"
                   /\ posted' \ posted = {}
                   /\ cachedNames' = cachedNames
                   /\ markers' = markers
        /\ flows[f].pc = "L57" /\ flows'[f].pc # "L57" =>
              /\ Answered(f)
              /\ flows'[f].pc = "L319"
              /\ PostsOnly(f, "loadLocalFiles")
        /\ flows[f].pc = "L319" /\ flows'[f].pc # "L319" =>
              /\ Answered(f)
              /\ IF updates THEN InUpdate(flows'[f])
                 ELSE flows'[f].pc = "done" /\ posted' \ posted = {}
        /\ InUpdate(flows'[f]) /\ ~InUpdate(flows[f]) =>
              flows[f].pc = "L319"
  /\ \A m \in posted' \ posted :
        /\ m.method = "setLocalCrateName" => \E f \in FlowIds : Starting(f)
        /\ m.method = "loadLocalFiles" =>
              \E f \in FlowIds : flows[f].pc = "L57" /\ Answered(f)

\* C19 (as stated): on initialization and on every workspace switch,
\* without src/lib.rs the stage ends at once with no call posted and no
\* error; with it the stage posts setLocalCrateName, then loadLocalFiles
\* when that is answered, then runs `update` when that is answered.
C19_AsStated == [][C19_Stage(TRUE)]_vars

\* C19 (amended): the same, except that `update` runs at the end of the
\* stage only when the first editor has a model; without one the stage
\* ends after loadLocalFiles.
C19_WorkspaceStage == [][C19_Stage(hasModel)]_vars

\* C19 witness: after a switch to a workspace without src/lib.rs whose
\* stage ended at once, a switch to a workspace with src/lib.rs went
\* through setLocalCrateName and loadLocalFiles and is inside `update`.
C19_Witness ==
  \E f, g \in FlowIds :
    /\ 0 < g
    /\ g < f
    /\ hasModel
    /\ hasLib
    /\ flows[g] = DoneFlow
    /\ InUpdate(flows[f])

\* C20 (state): a name reads "full" only if the reply to a full
\* ingestion call for it was received, and a name outside CRATES has no
\* entry.
C20_Behind ==
  \A c \in Names :
    /\ cachedNames[c] = "full" => c \in answered
    /\ c \notin CrateSet => cachedNames[c] = "none"

\* The reply to m arrives in this step and the resolver of m is called.
Replied(m) ==
  /\ m \in posted \ posted'
  /\ \E p \in pendingResolve \ pendingResolve' : p.id = m.id

\* C20 (step): an entry becomes "full" only in the step in which the
\* reply to a full ingestion call for the name is received, and "empty"
\* only in the step in which the reply to a register-empty call for it
\* is received; no entry is removed.
C20_Step ==
  \A c \in Names :
    /\ cachedNames'[c] = "full" /\ cachedNames[c] # "full" =>
          \E m \in FullLoads(posted) : m.args[1] = c /\ Replied(m)
    /\ cachedNames'[c] = "empty" /\ cachedNames[c] # "empty" =>
          \E m \in EmptyLoads(posted) : m.args[1] = c /\ Replied(m)
    /\ cachedNames'[c] = "none" => cachedNames[c] = "none"

\* C20: the cache never runs ahead of the worker: a name is "full" only
\* after the reply to a full ingestion call for it, "empty" only after the
\* reply to a register-empty (or full ingestion) call for it, and no name
\* outside CRATES ever gets an entry.
C20_CacheBehindEngine == [](C20_Behind) /\ [][C20_Step]_vars

\* C20 witness: one crate reads "full" and the other "empty", each after
\* the reply to its call, while the worker returned a name outside CRATES
\* as needed.
C20_Witness ==
  \E c, d \in CrateSet :
    /\ cachedNames[c] = "full"
    /\ cachedNames[d] = "empty"
    /\ c \in answered
    /\ \E n \in Needs(c) : n \notin CrateSet

====
